---- MODULE Spec2Model ----
(***************************************************************************)
(* Model of the command line entry point of compilation,                   *)
(* python/mlc_chat/cli/compile.py: main() builds an argparse parser,       *)
(* parses the command line, infers the target/host and the model type and  *)
(* calls compile().                                                        *)
(*                                                                         *)
(* The command line is consumed one option at a time, in the order given   *)
(* (argparse converts and checks each option when it meets it); an option  *)
(* may be repeated, the last occurrence wins.  Text that the program       *)
(* parses is kept as text: an integer argument is a sequence of            *)
(* characters, a path is the sequence of its "/"-separated segments, an    *)
(* optimization string is the sequence of its ";"-separated fields, each   *)
(* the sequence of its "="-separated parts.                                *)
(***************************************************************************)
EXTENDS Integers, Sequences, FiniteSets, TLC

VARIABLES
    pc,          \* position in main(): a label of main_order, "done" or "failed"
    parsed,      \* the argparse namespace
    seen,        \* dests of the options met so far (argparse's seen_actions)
    raw,         \* per dest, the text of its last occurrence (NoArg if none)
    last,        \* the option consumed last: [dest, text] (NoLast before any)
    nargs,       \* number of options consumed
    calls,       \* the calls made so far, in order
    error,       \* "none", or the failure that aborted the run
    target,      \* result of detect_target_and_host
    build_func,  \* result of detect_target_and_host
    descriptor   \* the keyword arguments compile() was called with

vars == <<pc, parsed, seen, raw, last, nargs, calls, error, target, build_func, descriptor>>

\* The number of options on the command line is bounded.
MaxArgs == 4

None == [tag |-> "None"]
\* What the command line gave for a dest: nothing, or a text.
NoArg == [given |-> FALSE]
Given(text) == [given |-> TRUE, text |-> text]
NoLast == [dest |-> "", text |-> <<>>]

Str(s) == [tag |-> "str", v |-> s]

-----------------------------------------------------------------------------
(* Registries and external collaborators (mlc_chat.compiler, ..support).   *)

\* QUANTIZATION: name -> quantization scheme
QUANTIZATION ==
    [name \in {"q4f16_1", "q3f16_1"} |->
        [tag |-> "Quantization", kind |-> "group-quant", name |-> name]]

\* MODELS: name -> model architecture
MODELS ==
    [name \in {"llama", "gpt_neox"} |-> [tag |-> "Model", name |-> name]]

\* The model directories of the environment: the config.json each holds (if any)
\* and the architecture that config names.
ConfigDirs ==
    [d \in {"model-dir", "odd-dir", "empty-dir"} |->
        CASE d = "model-dir" -> [found |-> TRUE,  architecture |-> "llama"]
          [] d = "odd-dir"   -> [found |-> TRUE,  architecture |-> "unheard-of"]
          [] OTHER           -> [found |-> FALSE, architecture |-> ""]]

\* detect_config(path): the located config artifact, or a failure.
detect_config(path) ==
    IF path \in DOMAIN ConfigDirs /\ ConfigDirs[path].found
    THEN [ok |-> TRUE,
          value |-> [tag |-> "Config", path |-> <<path, "config.json">>,
                     architecture |-> ConfigDirs[path].architecture]]
    ELSE [ok |-> FALSE, value |-> None]

\* detect_model_type(hint, config): an explicit hint is checked against the
\* registry and returned unchanged; "auto" is inferred from the config.
detect_model_type(hint, config) ==
    IF hint # "auto"
    THEN IF hint \in DOMAIN MODELS
         THEN [ok |-> TRUE, value |-> hint, err |-> "none"]
         ELSE [ok |-> FALSE, value |-> hint, err |-> "UnknownModelType"]
    ELSE LET matches == {m \in DOMAIN MODELS : config.architecture = m}
         IN  IF Cardinality(matches) = 1
             THEN [ok |-> TRUE, value |-> CHOOSE m \in matches : TRUE, err |-> "none"]
             ELSE [ok |-> FALSE, value |-> hint, err |-> "ModelTypeUndetectable"]

\* The accelerators a probe of the local machine may find ("none": nothing
\* usable) and the CPU ISAs it may detect ("unknown": not recognizable).
ProbedDevices == {"cuda", "none"}
ProbedHosts == {"x86-64", "unknown"}
KnownDevices == {"cuda", "metal"}
KnownHosts == {"arm", "arm64", "aarch64", "x86-64"}

\* detect_target_and_host(device, host) with the probe results it gets.
detect_target_and_host(device, host, probedDevice, probedHost) ==
    LET dev == IF device = "auto" THEN probedDevice ELSE device
        hst == IF host = "auto" THEN probedHost ELSE host
    IN  IF host # "auto" /\ host \notin KnownHosts
        THEN [ok |-> FALSE, err |-> "UnsupportedHost", target |-> None, build_func |-> None]
        ELSE IF dev \notin KnownDevices
        THEN [ok |-> FALSE, err |-> "NoTargetAvailable", target |-> None, build_func |-> None]
        ELSE IF hst \notin KnownHosts
        THEN [ok |-> FALSE, err |-> "AmbiguousHostDetection", target |-> None, build_func |-> None]
        ELSE [ok |-> TRUE, err |-> "none",
              target |-> [tag |-> "Target", device |-> dev, host |-> hst],
              build_func |-> [tag |-> "BuildFunc", device |-> dev, host |-> hst]]

\* The optimization toggles and the presets of the levels O0..O3.
Toggles == {"cutlass_attn", "cutlass_norm", "cublas_gemm", "cudagraph"}

Preset(level) ==
    CASE level = "O0" -> {}
      [] level = "O1" -> {"cutlass_attn", "cutlass_norm"}
      [] level = "O2" -> {"cutlass_attn", "cutlass_norm", "cublas_gemm"}
      [] OTHER        -> Toggles

Flags(on) == [tag |-> "OptimizationFlags", on |-> on]

RECURSIVE apply_overrides(_, _)
\* The fields of a flag string applied, left to right, to a set of enabled toggles.
apply_overrides(on, fields) ==
    IF fields = <<>> THEN [ok |-> TRUE, value |-> Flags(on), err |-> "none"]
    ELSE LET f == Head(fields)
         IN  IF Len(f) # 2 \/ f[2] \notin {"0", "1"}
             THEN [ok |-> FALSE, value |-> None, err |-> "MalformedOptimizationString"]
             ELSE IF f[1] \notin Toggles
             THEN [ok |-> FALSE, value |-> None, err |-> "UnknownOptimizationFlag"]
             ELSE apply_overrides(IF f[2] = "1" THEN on \cup {f[1]} ELSE on \ {f[1]},
                                  Tail(fields))

\* OptimizationFlags.from_str(text): a level token, or a list of assignments
\* that override the O2 preset.
from_str(text) ==
    IF Len(text) = 1 /\ Len(text[1]) = 1 /\ text[1][1] \in {"O0", "O1", "O2", "O3"}
    THEN [ok |-> TRUE, value |-> Flags(Preset(text[1][1])), err |-> "none"]
    ELSE apply_overrides(Preset("O2"), text)

-----------------------------------------------------------------------------
(* pathlib.Path and the filesystem.                                        *)

RECURSIVE LeadingEmpty(_)
LeadingEmpty(segs) ==
    IF segs = <<>> \/ Head(segs) # "" THEN 0 ELSE 1 + LeadingEmpty(Tail(segs))

\* The number of "/" a path string starts with.
LeadingSlashes(segs) ==
    IF LeadingEmpty(segs) = Len(segs) THEN Len(segs) - 1 ELSE LeadingEmpty(segs)

\* Path(text): the root ("" for a relative path; exactly two leading slashes
\* are kept as "//") and the components, empty and "." segments dropped.
Path(segs) ==
    [tag |-> "Path",
     root |-> CASE LeadingSlashes(segs) = 0 -> ""
                [] LeadingSlashes(segs) = 2 -> "//"
                [] OTHER -> "/",
     parts |-> SelectSeq(segs, LAMBDA s : s # "" /\ s # ".")]

\* path.parent
Parent(path) ==
    IF path.parts = <<>> THEN path
    ELSE [path EXCEPT !.parts = SubSeq(path.parts, 1, Len(path.parts) - 1)]

\* str(path), as "/"-separated segments
PathStr(path) ==
    CASE path.root = ""   -> IF path.parts = <<>> THEN <<".">> ELSE path.parts
      [] path.root = "//" -> <<"", "">> \o (IF path.parts = <<>> THEN <<"">> ELSE path.parts)
      [] OTHER            -> <<"">> \o (IF path.parts = <<>> THEN <<"">> ELSE path.parts)

\* The directories that exist: the current directory and its subdirectory d,
\* and the root directory.
is_dir(path) ==
    IF path.root = "" THEN path.parts \in {<<>>, <<"d">>} ELSE path.parts = <<>>

-----------------------------------------------------------------------------
(* The converters and checks of the parser's arguments.                    *)

Digits == {"0", "1", "2", "3", "4", "5", "6", "7", "8", "9"}
Letters == {"a", "b", "d", "m", "A", "Z"}

DigitVal(c) ==
    CASE c = "0" -> 0 [] c = "1" -> 1 [] c = "2" -> 2 [] c = "3" -> 3 [] c = "4" -> 4
      [] c = "5" -> 5 [] c = "6" -> 6 [] c = "7" -> 7 [] c = "8" -> 8 [] OTHER -> 9

RECURSIVE StripLeft(_)
StripLeft(cs) == IF cs # <<>> /\ Head(cs) = " " THEN StripLeft(Tail(cs)) ELSE cs

RECURSIVE StripRight(_)
StripRight(cs) ==
    IF cs # <<>> /\ cs[Len(cs)] = " " THEN StripRight(SubSeq(cs, 1, Len(cs) - 1)) ELSE cs

RECURSIVE DigitsValue(_, _)
\* The value of a run of digits (single underscores between digits skipped).
DigitsValue(cs, acc) ==
    IF cs = <<>> THEN acc
    ELSE IF Head(cs) = "_" THEN DigitsValue(Tail(cs), acc)
    ELSE DigitsValue(Tail(cs), 10 * acc + DigitVal(Head(cs)))

\* Whether cs is a run of digits, single underscores allowed between digits.
IsDigitRun(cs) ==
    /\ cs # <<>>
    /\ cs[1] \in Digits /\ cs[Len(cs)] \in Digits
    /\ \A i \in 1..Len(cs) : cs[i] \in Digits \cup {"_"}
    /\ \A i \in 1..(Len(cs) - 1) : ~(cs[i] = "_" /\ cs[i + 1] = "_")

\* Faulty variant of ParseInt: an integer below 1 is rejected.
ParseInt_PositiveOnly(cs) ==
    LET s == StripRight(StripLeft(cs))
        signed == s # <<>> /\ s[1] \in {"+", "-"}
        body == IF signed THEN Tail(s) ELSE s
        mag == DigitsValue(body, 0)
    IN  IF IsDigitRun(body) /\ ~(signed /\ s[1] = "-") /\ mag > 0
        THEN [ok |-> TRUE, value |-> [tag |-> "int", v |-> mag]]
        ELSE [ok |-> FALSE, value |-> None]

\* type=int: int(text) of a string of characters; ValueError otherwise.
ParseInt(cs) ==
    LET s == StripRight(StripLeft(cs))
        signed == s # <<>> /\ s[1] \in {"+", "-"}
        body == IF signed THEN Tail(s) ELSE s
        mag == DigitsValue(body, 0)
    IN  IF IsDigitRun(body)
        THEN [ok |-> TRUE,
              value |-> [tag |-> "int", v |-> IF signed /\ s[1] = "-" THEN 0 - mag ELSE mag]]
        ELSE [ok |-> FALSE, value |-> None]

\* type=str
ParseStr(text) == [ok |-> TRUE, value |-> Str(text)]

\* _parse_config(path)
_parse_config(path) ==
    LET r == detect_config(path)
    IN  IF r.ok THEN [ok |-> TRUE, value |-> r.value] ELSE [ok |-> FALSE, value |-> None]

\* Faulty variant of _parse_output: the parent directory is not looked at.
_parse_output_Unchecked(segs) == [ok |-> TRUE, value |-> Path(segs)]

\* _parse_output(path)
_parse_output(segs) ==
    LET path == Path(segs)
        parent == Parent(path)
    IN  IF ~is_dir(parent) THEN [ok |-> FALSE, value |-> None]
        ELSE [ok |-> TRUE, value |-> path]

\* re.match(r"^[a-zA-Z_][a-zA-Z0-9_]*$", prefix): "$" also matches just before
\* a newline that ends the string.
MatchesPattern(cs) ==
    LET body == IF cs # <<>> /\ cs[Len(cs)] = "\n" THEN SubSeq(cs, 1, Len(cs) - 1) ELSE cs
    IN  /\ body # <<>>
        /\ body[1] \in Letters \cup {"_"}
        /\ \A i \in 1..Len(body) : body[i] \in Letters \cup Digits \cup {"_"}

\* _check_prefix_symbols(prefix)
_check_prefix_symbols(prefix) ==
    IF prefix = <<>> \/ MatchesPattern(prefix)
    THEN [ok |-> TRUE, value |-> Str(prefix)]
    ELSE [ok |-> FALSE, value |-> None]

\* type=OptimizationFlags.from_str
ParseOpt(text) ==
    LET r == from_str(text)
    IN  [ok |-> r.ok, value |-> r.value]

\* choices=
QuantizationChoices == DOMAIN QUANTIZATION
ModelTypeChoices == {"auto"} \cup DOMAIN MODELS
\* Faulty variant of HostChoices: one more ISA is let through.
HostChoices_Wider == {"auto", "arm", "arm64", "aarch64", "x86-64", "mips"}

HostChoices == {"auto", "arm", "arm64", "aarch64", "x86-64"}

\* Faulty variant of RequiredArgs: --output is not required.
RequiredArgs_OutputOptional == {"config", "quantization"}

\* The dests of the options declared required=True.
RequiredArgs == {"config", "quantization", "output"}

\* The namespace before any option is met: every dest holds its default.
Defaults ==
    [config |-> None,
     quantization |-> None,
     model_type |-> Str("auto"),
     device |-> Str("auto"),
     host |-> Str("auto"),
     opt |-> Str(<<<<"O2">>>>),
     prefix_symbols |-> Str(<<>>),
     max_sequence_length |-> None,
     output |-> None]

Dests == DOMAIN Defaults

\* Faulty variant of ConvertDefaults: the defaults are left as they are.
ConvertDefaults_AsIs(ns, met) == ns

\* At the end of the command line argparse passes the string default of an
\* option it did not meet through the option's type; of the string defaults
\* only --opt has a type other than str.
ConvertDefaults(ns, met) ==
    IF "opt" \in met THEN ns
    ELSE [ns EXCEPT !.opt = ParseOpt(ns.opt.v).value]

\* Faulty variant of main_order: the model type is inferred before the target.
main_order_ModelTypeFirst ==
    <<"parse_args", "detect_model_type", "detect_target_and_host", "compile">>

\* The order of main()'s statements.
main_order == <<"parse_args", "detect_target_and_host", "detect_model_type", "compile">>

Following(label) ==
    LET i == CHOOSE k \in 1..Len(main_order) : main_order[k] = label
    IN  IF i = Len(main_order) THEN "done" ELSE main_order[i + 1]

\* Faulty variant of compile_kwargs: the quantization name is passed, not its entry.
compile_kwargs_QuantizationName(ns, tgt, bf) ==
    [config |-> ns.config,
     quantization |-> ns.quantization,
     model_type |-> ns.model_type,
     target |-> tgt,
     opt |-> ns.opt,
     build_func |-> bf,
     prefix_symbols |-> ns.prefix_symbols,
     output |-> ns.output,
     max_sequence_length |-> ns.max_sequence_length]

\* The keyword arguments of the compile() call.
compile_kwargs(ns, tgt, bf) ==
    [config |-> ns.config,
     quantization |-> QUANTIZATION[ns.quantization.v],
     model_type |-> ns.model_type,
     target |-> tgt,
     opt |-> ns.opt,
     build_func |-> bf,
     prefix_symbols |-> ns.prefix_symbols,
     output |-> ns.output,
     max_sequence_length |-> ns.max_sequence_length]

-----------------------------------------------------------------------------
(* The command lines considered: the texts each option is given.           *)

ConfigInputs == {"model-dir", "odd-dir", "empty-dir"}
QuantizationInputs == {"q4f16_1", "q3f16_1", "q9f9"}
ModelTypeInputs == {"auto", "llama", "bert"}
DeviceInputs == {"auto", "cuda"}
HostInputs == {"arm64", "x86-64", "mips"}
OptInputs ==
    { <<<<"O2">>>>, <<<<"O3">>>>,
      <<<<"cudagraph", "1">>>>,
      <<<<"cutlass_attn", "1">>, <<"unknown_flag", "0">>>> }
PrefixInputs == { <<>>, <<"m", "_", "1">>, <<"1", "b", "a", "d">> }
MaxSeqLenInputs == { <<"7">>, <<"0">>, <<"-", "3">>, <<"1", ".", "5">> }
OutputInputs ==
    { <<"out.so">>, <<".", "out.so">>, <<"d", "out.so">>, <<"", "out.so">>,
      <<"nodir", "out.so">> }

-----------------------------------------------------------------------------
(* The run of main().                                                      *)

Init ==
    /\ pc = main_order[1]
    /\ parsed = Defaults
    /\ seen = {}
    /\ raw = [d \in Dests |-> NoArg]
    /\ last = NoLast
    /\ nargs = 0
    /\ calls = <<>>
    /\ error = "none"
    /\ target = None
    /\ build_func = None
    /\ descriptor = None

\* argparse meets the option of dest with the given text: the text is
\* converted (conv is the result of the option's type), checked against the
\* option's choices (inChoices) and stored; a failure of either is
\* parser.error(), which exits.
TakeArg(dest, text, conv, inChoices, events) ==
    /\ pc = "parse_args"
    /\ nargs < MaxArgs
    /\ nargs' = nargs + 1
    /\ raw' = [raw EXCEPT ![dest] = Given(text)]
    /\ last' = [dest |-> dest, text |-> text]
    /\ calls' = calls \o events
    /\ IF ~conv.ok
       THEN /\ pc' = "failed"
            /\ error' = "invalid value: " \o dest
            /\ UNCHANGED <<parsed, seen>>
       ELSE IF ~inChoices
       THEN /\ pc' = "failed"
            /\ error' = "invalid choice: " \o dest
            /\ UNCHANGED <<parsed, seen>>
       ELSE /\ parsed' = [parsed EXCEPT ![dest] = conv.value]
            /\ seen' = seen \cup {dest}
            /\ UNCHANGED <<pc, error>>
    /\ UNCHANGED <<target, build_func, descriptor>>

ArgConfig ==
    \E text \in ConfigInputs :
        TakeArg("config", text, _parse_config(text), TRUE, <<"detect_config">>)

\* Faulty variant of ArgQuantization: the option has no choices.
ArgQuantization_NoChoices ==
    \E text \in QuantizationInputs :
        TakeArg("quantization", text, ParseStr(text), TRUE, <<>>)

ArgQuantization ==
    \E text \in QuantizationInputs :
        TakeArg("quantization", text, ParseStr(text), text \in QuantizationChoices,
                <<"choices:quantization">>)

ArgModelType ==
    \E text \in ModelTypeInputs :
        TakeArg("model_type", text, ParseStr(text), text \in ModelTypeChoices,
                <<"choices:model_type">>)

ArgDevice ==
    \E text \in DeviceInputs :
        TakeArg("device", text, ParseStr(text), TRUE, <<>>)

ArgHost ==
    \E text \in HostInputs :
        TakeArg("host", text, ParseStr(text), text \in HostChoices, <<"choices:host">>)

ArgOpt ==
    \E text \in OptInputs :
        TakeArg("opt", text, ParseOpt(text), TRUE, <<"from_str">>)

ArgPrefixSymbols ==
    \E text \in PrefixInputs :
        TakeArg("prefix_symbols", text, ParseStr(text), TRUE, <<>>)

ArgMaxSequenceLength ==
    \E text \in MaxSeqLenInputs :
        TakeArg("max_sequence_length", text, ParseInt(text), TRUE, <<>>)

ArgOutput ==
    \E text \in OutputInputs :
        TakeArg("output", text, _parse_output(text), TRUE, <<"_parse_output">>)

\* The end of the command line: the defaults of the options not met are
\* converted, then a missing required option is an error.
EndOfArgs ==
    /\ pc = "parse_args"
    /\ parsed' = ConvertDefaults(parsed, seen)
    /\ calls' = IF "opt" \in seen THEN calls ELSE Append(calls, "from_str")
    /\ IF RequiredArgs \subseteq seen
       THEN /\ pc' = Following("parse_args")
            /\ error' = error
       ELSE /\ pc' = "failed"
            /\ error' = "required"
    /\ UNCHANGED <<seen, raw, last, nargs, target, build_func, descriptor>>

\* target, build_func = detect_target_and_host(parsed.device, parsed.host)
DetectTargetAndHost ==
    /\ pc = "detect_target_and_host"
    /\ \E pd \in ProbedDevices, ph \in ProbedHosts :
        LET r == detect_target_and_host(parsed.device.v, parsed.host.v, pd, ph)
        IN  /\ target' = r.target
            /\ build_func' = r.build_func
            /\ error' = r.err
            /\ pc' = IF r.ok THEN Following("detect_target_and_host") ELSE "failed"
    /\ calls' = Append(calls, "detect_target_and_host")
    /\ UNCHANGED <<parsed, seen, raw, last, nargs, descriptor>>

\* Faulty variant of DetectModelType: the result of detect_model_type is dropped.
DetectModelType_ResultDropped ==
    /\ pc = "detect_model_type"
    /\ LET r == detect_model_type(parsed.model_type.v, parsed.config)
       IN  /\ error' = r.err
           /\ pc' = IF r.ok THEN Following("detect_model_type") ELSE "failed"
    /\ calls' = Append(calls, "detect_model_type")
    /\ UNCHANGED <<parsed, seen, raw, last, nargs, target, build_func, descriptor>>

\* parsed.model_type = detect_model_type(parsed.model_type, parsed.config)
DetectModelType ==
    /\ pc = "detect_model_type"
    /\ LET r == detect_model_type(parsed.model_type.v, parsed.config)
       IN  /\ parsed' = IF r.ok THEN [parsed EXCEPT !.model_type = Str(r.value)] ELSE parsed
           /\ error' = r.err
           /\ pc' = IF r.ok THEN Following("detect_model_type") ELSE "failed"
    /\ calls' = Append(calls, "detect_model_type")
    /\ UNCHANGED <<seen, raw, last, nargs, target, build_func, descriptor>>

\* compile(config=..., ..., max_sequence_length=...)
Compile ==
    /\ pc = "compile"
    /\ descriptor' = compile_kwargs(parsed, target, build_func)
    /\ calls' = Append(calls, "compile")
    /\ pc' = Following("compile")
    /\ UNCHANGED <<parsed, seen, raw, last, nargs, error, target, build_func>>

Next ==
    \/ ArgConfig
    \/ ArgQuantization
    \/ ArgModelType
    \/ ArgDevice
    \/ ArgHost
    \/ ArgOpt
    \/ ArgPrefixSymbols
    \/ ArgMaxSequenceLength
    \/ ArgOutput
    \/ EndOfArgs
    \/ DetectTargetAndHost
    \/ DetectModelType
    \/ Compile

Spec == Init /\ [][Next]_vars

-----------------------------------------------------------------------------
(* Properties.                                                             *)

Called(fn) == \E i \in DOMAIN calls : calls[i] = fn
Count(fn) == Cardinality({i \in DOMAIN calls : calls[i] = fn})

\* The calls argparse makes while it parses, and those main() makes after it.
ParseCalls ==
    {"detect_config", "from_str", "_parse_output",
     "choices:quantization", "choices:model_type", "choices:host"}
MainCalls == {"detect_target_and_host", "detect_model_type", "compile"}

\* C1: compile() is invoked only in a run in which config location, the
\* quantization, model-type and host membership checks, optimization-flag
\* parsing, output-path validation, target/host inference and model-type
\* inference all succeeded; a run in which one of them failed has stopped
\* and never invoked compile().
C1_CompileOnlyAfterEveryStage ==
    /\ Called("compile") =>
          /\ error = "none"
          /\ parsed.config.tag = "Config"
          /\ raw.quantization \in {Given("q4f16_1"), Given("q3f16_1")}
          /\ raw.model_type \in {NoArg, Given("auto"), Given("llama"), Given("gpt_neox")}
          /\ raw.host \in {NoArg} \cup {Given(h) : h \in {"auto", "arm", "arm64", "aarch64", "x86-64"}}
          /\ parsed.opt.tag = "OptimizationFlags"
          /\ parsed.output.tag = "Path"
          /\ is_dir(Parent(parsed.output))
          /\ Count("detect_target_and_host") = 1
          /\ target.tag = "Target"
          /\ build_func.tag = "BuildFunc"
          /\ Count("detect_model_type") = 1
          /\ parsed.model_type.v \in {"llama", "gpt_neox"}
          /\ descriptor.config = parsed.config
          /\ descriptor.target = target
    /\ (error # "none") = (pc = "failed")
    /\ pc = "failed" => (~Called("compile") /\ descriptor = None /\ ~ENABLED Next)

C1_Witness ==
    /\ pc = "done"
    /\ Called("compile")
    /\ "host" \in seen

\* C2: a non-empty --prefix-symbols value that does not match
\* ^[A-Za-z_][A-Za-z0-9_]*$ fails the run and compile() is not invoked, so
\* the prefix_symbols compile() receives is empty or a valid identifier.
IsIdentifier(cs) ==
    /\ cs # <<>>
    /\ cs[1] \in Letters \cup {"_"}
    /\ \A i \in 1..Len(cs) : cs[i] \in Letters \cup Digits \cup {"_"}

C2_PrefixIsIdentifierOrEmpty ==
    descriptor # None =>
        /\ raw.prefix_symbols.given =>
              (raw.prefix_symbols.text = <<>> \/ IsIdentifier(raw.prefix_symbols.text))
        /\ (descriptor.prefix_symbols.v = <<>> \/ IsIdentifier(descriptor.prefix_symbols.v))

\* The order of the components as the claim C3 states it.
StatedRank(fn) ==
    CASE fn = "detect_config" -> 1
      [] fn = "detect_model_type" -> 2
      [] fn = "detect_target_and_host" -> 3
      [] fn = "from_str" -> 4
      [] fn = "compile" -> 5
      [] OTHER -> 0

\* C3 (as stated), of a run that has completed: each component ran at most
\* once and in the order Path/Config Locator, Model-Type Inferencer,
\* Target/Host Inferencer, Optimization-Flag Parser, Assembler hand-off;
\* model-type inference was not preceded by target/host inference.
C3_StatedOrder ==
    pc = "done" =>
        \A i, j \in DOMAIN calls :
            (i < j /\ StatedRank(calls[i]) > 0 /\ StatedRank(calls[j]) > 0)
                => StatedRank(calls[i]) < StatedRank(calls[j])

\* C3 (amended): the command line is parsed first, which runs the Config
\* Locator and the Optimization-Flag Parser once per occurrence of their
\* option (and the Optimization-Flag Parser once on the default when --opt is
\* absent); then the Target/Host Inferencer, the Model-Type Inferencer and
\* compile() run at most once each, in that order, each only after the one
\* before it; after a failure nothing more runs.
C3_CodeOrder ==
    LET order == <<"detect_target_and_host", "detect_model_type", "compile">>
        made == SelectSeq(calls, LAMBDA f : f \in MainCalls)
    IN  /\ Len(made) <= Len(order)
        /\ made = SubSeq(order, 1, Len(made))
        /\ \A i \in 1..(Len(calls) - 1) : calls[i] \in MainCalls => calls[i + 1] \in MainCalls
        /\ made # <<>> => (Called("from_str") /\ Called("detect_config"))
        /\ Count("detect_config") + Count("from_str") <= nargs + 1
        /\ pc = "failed" => ~ENABLED Next

C3_Witness ==
    /\ Called("compile")
    /\ Count("detect_config") = 2

\* C4: an --output path whose parent is not an existing directory fails the
\* run and compile() is not invoked; any other path is accepted and is the
\* path compile() receives, as the Path of the text given; a bare file name
\* (its parent is the current directory) is accepted.
C4_OutputParentMustExist ==
    /\ raw.output = Given(<<"nodir", "out.so">>)
          => (pc = "failed" /\ error = "invalid value: output"
              /\ last.dest = "output" /\ descriptor = None
              /\ ~Called("detect_target_and_host"))
    /\ (last.dest = "output"
        /\ last.text \in {<<"out.so">>, <<".", "out.so">>, <<"d", "out.so">>, <<"", "out.so">>})
          => (error # "invalid value: output" /\ parsed.output = Path(last.text))
    /\ (last.dest = "output" /\ last.text = <<"out.so">>)
          => (parsed.output.root = "" /\ parsed.output.parts = <<"out.so">>)
    /\ descriptor # None =>
          /\ raw.output.given
          /\ descriptor.output = Path(raw.output.text)
          /\ raw.output.text \in {<<"out.so">>, <<"d", "out.so">>, <<"", "out.so">>}
                => PathStr(descriptor.output) = raw.output.text

C4_Witness ==
    /\ descriptor # None
    /\ raw.output = Given(<<"out.so">>)
    /\ descriptor.output.parts = <<"out.so">>

\* C5: a --host value outside {auto, arm, arm64, aarch64, x86-64} fails the
\* run at that option, before detect_target_and_host is called; the host
\* hint detect_target_and_host receives is always in that set.
C5_HostHintInChoices ==
    /\ (last.dest = "host" /\ last.text \notin {"auto", "arm", "arm64", "aarch64", "x86-64"})
          => (pc = "failed" /\ error = "invalid choice: host"
              /\ ~Called("detect_target_and_host"))
    /\ (Called("detect_target_and_host") \/ pc = "detect_target_and_host")
          => parsed.host.v \in {"auto", "arm", "arm64", "aarch64", "x86-64"}

C5_Witness ==
    /\ last.dest = "host"
    /\ last.text = "mips"
    /\ pc = "failed"
    /\ Called("detect_config")

\* C6: a --quantization value that is not a key of QUANTIZATION fails the
\* run without compile() being invoked; the quantization compile() receives
\* is the registry entry of the name given.
C6_QuantizationFromRegistry ==
    /\ (last.dest = "quantization" /\ last.text \notin DOMAIN QUANTIZATION)
          => (pc = "failed" /\ error = "invalid choice: quantization" /\ descriptor = None)
    /\ descriptor # None =>
          /\ raw.quantization.given
          /\ raw.quantization.text \in DOMAIN QUANTIZATION
          /\ descriptor.quantization = QUANTIZATION[raw.quantization.text]
          /\ descriptor.quantization.tag = "Quantization"

C6_Witness ==
    /\ descriptor # None
    /\ raw.quantization = Given("q3f16_1")
    /\ descriptor.quantization.name = "q3f16_1"

\* C7: the model_type compile() receives is a key of MODELS, never "auto",
\* whether the hint was explicit or "auto"; an explicit hint that is not a
\* key of MODELS fails the run before any inference runs.
C7_ModelTypeConcrete ==
    /\ pc \in {"compile", "done"} =>
          (parsed.model_type.v \in DOMAIN MODELS /\ parsed.model_type.v # "auto")
    /\ descriptor # None =>
          /\ descriptor.model_type.v \in DOMAIN MODELS
          /\ descriptor.model_type.v # "auto"
          /\ raw.model_type \notin {NoArg, Given("auto")}
                => descriptor.model_type.v = raw.model_type.text
    /\ (last.dest = "model_type" /\ last.text \notin {"auto"} \cup DOMAIN MODELS)
          => (pc = "failed" /\ error = "invalid choice: model_type"
              /\ ~Called("detect_model_type") /\ ~Called("detect_target_and_host"))

C7_Witness ==
    /\ descriptor # None
    /\ raw.model_type \in {NoArg, Given("auto")}
    /\ descriptor.model_type.v = "llama"

\* C8: when --opt is omitted compile() receives the default "O2" passed
\* through OptimizationFlags.from_str, never the raw string; omitting --opt
\* and giving --opt O2 yield the same opt.
C8_DefaultOptParsed ==
    /\ pc \notin {"parse_args", "failed"} => parsed.opt.tag = "OptimizationFlags"
    /\ descriptor # None =>
          /\ descriptor.opt.tag = "OptimizationFlags"
          /\ raw.opt \in {NoArg, Given(<<<<"O2">>>>)} => descriptor.opt = from_str(<<<<"O2">>>>).value

C8_Witness ==
    /\ descriptor # None
    /\ "opt" \notin seen
    /\ descriptor.opt = Flags(Preset("O2"))

\* C9 (as stated), of a run that has completed: the output path's
\* parent-directory check and the quantization membership check were not
\* evaluated before detect_target_and_host and detect_model_type had
\* returned.
C9_ChecksAfterInference ==
    pc = "done" =>
        \A i \in DOMAIN calls :
            calls[i] \in {"_parse_output", "choices:quantization"}
                => /\ \E j \in 1..(i - 1) : calls[j] = "detect_target_and_host"
                   /\ \E j \in 1..(i - 1) : calls[j] = "detect_model_type"

\* C9 (amended): the output path's parent-directory check and the
\* quantization membership check are evaluated while the command line is
\* parsed: both have been evaluated, and have passed, before
\* detect_target_and_host and detect_model_type are called, and neither is
\* evaluated after.
C9_ChecksWhileParsing ==
    /\ \A i \in DOMAIN calls :
          calls[i] \in MainCalls
              => /\ \E j \in 1..(i - 1) : calls[j] = "_parse_output"
                 /\ \E j \in 1..(i - 1) : calls[j] = "choices:quantization"
    /\ \A i \in DOMAIN calls :
          calls[i] \in {"_parse_output", "choices:quantization"}
              => \A j \in 1..i : calls[j] \notin MainCalls
    /\ pc \in {"detect_target_and_host", "detect_model_type", "compile", "done"}
          => /\ raw.output.given /\ is_dir(Parent(Path(raw.output.text)))
             /\ raw.quantization.given /\ raw.quantization.text \in DOMAIN QUANTIZATION

C9_Witness ==
    /\ Called("detect_model_type")
    /\ Count("_parse_output") = 2

\* The integers the texts given to --max-sequence-length denote.
IntOf(cs) ==
    CASE cs = <<"7">> -> 7
      [] cs = <<"0">> -> 0
      [] cs = <<"-", "3">> -> 0 - 3

\* C10: every integer given to --max-sequence-length, zero and negative
\* included, reaches compile() as max_sequence_length unchanged; a text that
\* is no integer fails the run; compile() receives None when the option is
\* omitted.
C10_MaxSeqLenPassedThrough ==
    /\ (last.dest = "max_sequence_length" /\ last.text \in {<<"7">>, <<"0">>, <<"-", "3">>})
          => (error # "invalid value: max_sequence_length"
              /\ parsed.max_sequence_length.tag = "int"
              /\ parsed.max_sequence_length.v = IntOf(last.text))
    /\ (last.dest = "max_sequence_length" /\ last.text = <<"1", ".", "5">>)
          => (pc = "failed" /\ error = "invalid value: max_sequence_length"
              /\ descriptor = None)
    /\ descriptor # None =>
          IF raw.max_sequence_length = NoArg
          THEN descriptor.max_sequence_length = None
          ELSE /\ descriptor.max_sequence_length.tag = "int"
               /\ descriptor.max_sequence_length.v = IntOf(raw.max_sequence_length.text)

C10_Witness ==
    /\ descriptor # None
    /\ raw.max_sequence_length = Given(<<"-", "3">>)
    /\ descriptor.max_sequence_length.v < 0

====
